---- MODULE Spec2Model ----
(***************************************************************************)
(* Model of idletoaster/ssh-mcp-server: the tool dispatch of index.js      *)
(* (src/unnamed/part_001), the per-call SSH session of lib/ssh-client.js,  *)
(* and the remote shell scripts synthesized by ssh-edit-block,             *)
(* ssh-write-chunk, ssh-read-lines and ssh-search-code.                    *)
(*                                                                         *)
(* JavaScript values are tagged records, so that `undefined`, `null`,      *)
(* strings and numbers stay distinct and truthiness is computed as the     *)
(* language computes it.  A JavaScript string is a sequence of tokens; the *)
(* empty string is the empty sequence.                                     *)
(***************************************************************************)
EXTENDS Integers, Sequences, FiniteSets, TLC

VARIABLES
    fs,          \* local filesystem: the set of key paths readFileSync can read
    envKey,      \* process.env.SSH_PRIVATE_KEY
    name,        \* request.params.name of the call being handled
    args,        \* request.params.arguments of the call being handled
    pc,          \* position of the tool handler: idle, awaiting, done
    promise,     \* the Promise returned by SSHClient.executeCommand
    settles,     \* number of resolve/reject calls that took effect
    results,     \* number of ExecutionResult objects the promise delivered
    conn,        \* ssh2 Client/channel: none, connecting, execPending, open, closed, failed
    errored,     \* the Client has emitted 'error'
    terminates,  \* whether the remote command ever terminates by itself
    connects,    \* number of conn.connect calls
    execs,       \* number of conn.exec calls
    ends,        \* number of conn.end calls
    keyReads,    \* paths handed to readFileSync, in order
    privateKey,  \* config.privateKey handed to conn.connect
    command,     \* the command string given to executeCommand
    output,      \* executeCommand's `output` accumulator
    errorOutput, \* executeCommand's `errorOutput` accumulator
    nData,       \* number of data events delivered (bounded)
    arrived,     \* the data events delivered so far, in order: stream and chunk
    closedWith,  \* (code, signal) of the stream 'close' event delivered
    response,    \* what the CallTool handler gave the dispatch layer
    \* the remote host while ssh-edit-block scripts run; what belongs to one
    \* script is a function of the call that started it
    remoteFile,  \* the target: its kind and, for a regular file, its lines
    backups,     \* backup files made by the script, one per timestamp
    now,         \* the remote clock in seconds, `date +%s`
    oldText,     \* args.oldText of the edit
    newText,     \* args.newText of the edit
    sedScript,   \* the expression handed to sed -i
    spc,         \* position in the script
    stamp,       \* what $(date +%s) gave the script for its backup's name
    nEdits,      \* number of ssh-edit-block calls made (bounded)
    beforeCount, \* $before_count
    afterCount,  \* $after_count
    scriptOut,   \* lines the script has echoed
    scriptExit,  \* exit status of the script
    preSed,      \* the target's lines as each sed -i that ran read them, in order
    inode,       \* the inode number of the target
    cpNew,       \* whether cp found no file at its destination when it started
    cpSeen,      \* the inode number cp found when it examined the target
    cpSource,    \* the lines of the file cp has opened for reading
    sedTemp,     \* the temporary file of sed -i: its inode and lines
    opened,      \* the inodes the script's running command holds open
    \* the remote host while the scripts of the other file tools run; what
    \* belongs to one call is a function of the call
    shell,       \* the login shell that interprets the scripts
    target,      \* what is at the target path: its kind and, for a file, its bytes
    ftool,       \* the file tool of the call, "none" before it is made
    fargs,       \* its arguments
    fbefore,     \* the target as the script's last command found it: for a
                 \* command that reads the file, the bytes it read
    fseen,       \* the bytes the script's running command has read so far
    fran,        \* the script's run: position, target as its last command left
                 \* it, stdout so far, exit status
    ftext        \* the text the handler returned

callVars == <<fs, envKey, name, args, pc, promise, settles, results, conn, errored,
              terminates, connects, execs, ends, keyReads, privateKey, command,
              output, errorOutput, nData, arrived, closedWith, response>>

fileVars == <<shell, target, ftool, fargs, fbefore, fseen, fran, ftext>>

tempVars == <<inode, cpNew, cpSeen, cpSource, sedTemp, opened>>

editVars == <<remoteFile, backups, now, oldText, newText, sedScript, spc,
              beforeCount, afterCount, scriptOut, scriptExit, preSed,
              stamp, nEdits, tempVars>>

vars == <<callVars, editVars, fileVars>>

-----------------------------------------------------------------------------
(* JavaScript values *)

Undefined == [t |-> "undefined"]
Null == [t |-> "null"]
Str(s) == [t |-> "string", v |-> s]
Num(n) == [t |-> "number", v |-> n]
Bool(b) == [t |-> "boolean", v |-> b]

\* ToBoolean: undefined, null, false, "" and 0 are falsy; objects are truthy
Truthy(x) ==
    CASE x.t = "undefined" -> FALSE
      [] x.t = "null" -> FALSE
      [] x.t = "boolean" -> x.v
      [] x.t = "string" -> x.v # <<>>
      [] x.t = "number" -> x.v # 0
      [] OTHER -> TRUE

\* a || b
Or(a, b) == IF Truthy(a) THEN a ELSE b

\* the text `${n}` renders for an integer
Digit(n) ==
    CASE n = 0 -> "0" [] n = 1 -> "1" [] n = 2 -> "2" [] n = 3 -> "3"
      [] n = 4 -> "4" [] n = 5 -> "5" [] n = 6 -> "6" [] n = 7 -> "7"
      [] n = 8 -> "8" [] n = 9 -> "9"

RECURSIVE NumText(_)
NumText(n) ==
    IF n < 0 THEN "-" \o NumText(0 - n)
    ELSE IF n < 10 THEN Digit(n)
    ELSE NumText(n \div 10) \o Digit(n % 10)

\* the text a template literal `${x}` interpolates
Text(x) ==
    CASE x.t = "string" -> x.v
      [] x.t = "number" -> <<NumText(x.v)>>
      [] x.t = "boolean" -> IF x.v THEN <<"true">> ELSE <<"false">>
      [] x.t = "undefined" -> <<"undefined">>
      [] x.t = "null" -> <<"null">>
      [] OTHER -> <<"[object Object]">>

\* Array.prototype.join(', ')
RECURSIVE Join(_)
Join(paths) ==
    IF paths = <<>> THEN <<>>
    ELSE IF Len(paths) = 1 THEN paths[1]
    ELSE paths[1] \o <<", ">> \o Join(Tail(paths))

\* the WhiteSpace and LineTerminator code points of ECMAScript; those with no
\* escape of their own in a TLA+ string are named by their \u escape
Whitespace ==
    {" ", "\n", "\t", "\r", "\f", "\\u000b", "\\u00a0", "\\ufeff", "\\u2028", "\\u2029",
     "\\u1680", "\\u2000", "\\u2001", "\\u2002", "\\u2003", "\\u2004", "\\u2005",
     "\\u2006", "\\u2007", "\\u2008", "\\u2009", "\\u200a", "\\u202f", "\\u205f",
     "\\u3000"}

\* String.prototype.trim
RECURSIVE TrimLeft(_)
TrimLeft(s) ==
    IF s # <<>> /\ Head(s) \in Whitespace THEN TrimLeft(Tail(s)) ELSE s

RECURSIVE TrimRight(_)
TrimRight(s) ==
    IF s # <<>> /\ s[Len(s)] \in Whitespace
    THEN TrimRight(SubSeq(s, 1, Len(s) - 1)) ELSE s

Trim(s) == TrimRight(TrimLeft(s))

-----------------------------------------------------------------------------
(* Bounds and input domains *)

MaxData == 2

\* paths are JavaScript strings (token sequences)
ExplicitPath == <<"/keys/explicit">>
EnvPath == <<"/keys/env">>

\* SSHClient constructor
defaultKeyPaths == << <<"~/.ssh/id_rsa">>, <<"~/.ssh/id_ed25519">>, <<"~/.ssh/id_ecdsa">> >>

KeyPaths == {ExplicitPath, EnvPath} \cup {defaultKeyPaths[i] : i \in 1..3}

ToolNames == {"remote-ssh", "ssh-edit-block", "ssh-read-lines",
              "ssh-search-code", "ssh-write-chunk"}
\* the tools and a name that is none of them
RequestNames == ToolNames \cup {"ssh-unknown"}

\* the fields each handler tests with !x before doing anything else
Required(tool) ==
    CASE tool = "remote-ssh" -> {"host", "user", "command"}
      [] tool = "ssh-edit-block" -> {"host", "user", "filePath", "oldText", "newText"}
      [] tool = "ssh-read-lines" -> {"host", "user", "filePath"}
      [] tool = "ssh-search-code" -> {"host", "user", "path", "pattern"}
      [] tool = "ssh-write-chunk" -> {"host", "user", "filePath", "content"}
      [] OTHER -> {}

ArgNames == {"host", "user", "command", "filePath", "oldText", "newText",
             "path", "pattern", "content", "privateKeyPath"}

ArgValues == {Undefined, Str(<<>>), Str(<<"v">>), Bool(FALSE)}
KeyArgValues == {Undefined, Str(<<>>), Str(ExplicitPath)}
EnvValues == {Undefined, Str(<<>>), Str(EnvPath)}

\* argument bags: the required fields of the tool and privateKeyPath take any
\* value, every other field is absent; the whole bag may be absent too
ArgBags(tool) ==
    {Undefined} \cup
    {[t |-> "object",
      v |-> [f \in ArgNames |->
                IF f \in Required(tool) THEN r[f]
                ELSE IF f = "privateKeyPath" THEN k ELSE Undefined]] :
        r \in [Required(tool) -> ArgValues], k \in KeyArgValues}

-----------------------------------------------------------------------------
(* lib/ssh-client.js *)

\* the for loop of getPrivateKey: readFileSync on each path until one succeeds
RECURSIVE TryPaths(_, _)
TryPaths(paths, files) ==
    IF paths = <<>> THEN [found |-> FALSE, path |-> <<>>, reads |-> <<>>]
    ELSE IF Head(paths) \in files
         THEN [found |-> TRUE, path |-> Head(paths), reads |-> <<Head(paths)>>]
         ELSE LET r == TryPaths(Tail(paths), files)
              IN  [r EXCEPT !.reads = <<Head(paths)>> \o @]

\* a resolver that falls back to the defaults after an explicit path
CandidatePathsWithFallback(keyPath) ==
    IF Truthy(keyPath) THEN <<keyPath.v>> \o defaultKeyPaths ELSE defaultKeyPaths

\* const paths = keyPath ? [keyPath] : this.defaultKeyPaths
CandidatePaths(keyPath) ==
    IF Truthy(keyPath) THEN <<keyPath.v>> ELSE defaultKeyPaths

\* the bytes readFileSync returns for a path
FileBytes(path) == <<"bytes of ">> \o path

NoKeyMessage(paths) ==
    <<"No private key found. Tried: ">> \o Join(paths)
        \o <<"\n", "Please provide privateKeyPath or set SSH_PRIVATE_KEY environment variable">>

\* SSHClient.getPrivateKey: ok with the key, or the thrown Error's message
getPrivateKey(keyPath, files) ==
    LET paths == CandidatePaths(keyPath)
        r == TryPaths(paths, files)
    IN  [ok |-> r.found,
         key |-> IF r.found THEN FileBytes(r.path) ELSE <<>>,
         message |-> IF r.found THEN <<>> ELSE NoKeyMessage(paths),
         reads |-> r.reads]

\* a configuration that arms no handshake timer
configWithoutReadyTimeout == [readyTimeout |-> 0, keepaliveInterval |-> 30000]

\* connection configuration of executeCommand
config == [readyTimeout |-> 20000, keepaliveInterval |-> 30000]

NoResult == [output |-> <<>>, error |-> Null, exitCode |-> Null]
NoPromise == [state |-> "none", result |-> NoResult, message |-> <<>>]
Pending == [state |-> "pending", result |-> NoResult, message |-> <<>>]

\* resolve(value) and reject(error) of a Promise: only the first call settles it
Resolve(p, result) ==
    IF p.state = "pending"
    THEN [state |-> "fulfilled", result |-> result, message |-> <<>>] ELSE p

Reject(p, message) ==
    IF p.state = "pending"
    THEN [state |-> "rejected", result |-> NoResult, message |-> message] ELSE p

Settled(p) == p.state \in {"fulfilled", "rejected"}

\* the object the stream 'close' handler passes to resolve
CloseResult(out, err, code) ==
    [output |-> Trim(out),
     error |-> Or(Str(Trim(err)), Null),
     exitCode |-> code]

-----------------------------------------------------------------------------
(* index.js: the tool handlers *)

\* a validation that tests for absence only and lets "" through
MissingRequiredAbsentOnly(tool, a) == \E f \in Required(tool) : a[f] = Undefined

\* if (!host || !user || ...) of the five handlers
MissingRequired(tool, a) == \E f \in Required(tool) : ~Truthy(a[f])

MissingMessage(tool) ==
    CASE tool = "remote-ssh" -> <<"Missing required parameters: host, user, command">>
      [] tool = "ssh-edit-block" ->
            <<"Missing required parameters: host, user, filePath, oldText, newText">>
      [] tool = "ssh-read-lines" -> <<"Missing required parameters: host, user, filePath">>
      [] tool = "ssh-search-code" ->
            <<"Missing required parameters: host, user, path, pattern">>
      [] tool = "ssh-write-chunk" ->
            <<"Missing required parameters: host, user, filePath, content">>

\* new McpError(code, message)
\* ErrorCode of the SDK
MethodNotFound == -32601
InternalError == -32603

\* new McpError(code, message): the SDK's constructor passes
\* `MCP error ${code}: ${message}` to Error
McpError(code, message) ==
    [thrown |-> TRUE, code |-> code,
     message |-> <<"MCP error ", NumText(code), ": ">> \o message]
\* new Error(message), and the TypeError of destructuring an absent bag
PlainError(message) == [thrown |-> TRUE, code |-> 0, message |-> message]
NoError == [thrown |-> FALSE, code |-> 0, message |-> <<>>]

\* what the switch statement and the handler's synchronous prologue throw
Prologue(n, a) ==
    IF n \notin ToolNames
    THEN McpError(MethodNotFound, <<"Unknown tool: ", n>>)
    ELSE IF a = Undefined
    THEN PlainError(<<"Cannot destructure property 'host' of 'args' as it is undefined.">>)
    ELSE IF MissingRequired(n, a.v) THEN PlainError(MissingMessage(n))
    ELSE NoError

NoEnvelope == [success |-> FALSE, output |-> Str(<<>>), error |-> Null,
               exitCode |-> Null, host |-> Undefined, command |-> Undefined]
NoResponse == [kind |-> "none", code |-> 0, message |-> <<>>, text |-> <<>>,
               envelope |-> NoEnvelope]

Envelope(e) == [kind |-> "envelope", code |-> 0, message |-> <<>>, text |-> <<>>,
                envelope |-> e]
TextBody(t) == [kind |-> "text", code |-> 0, message |-> <<>>, text |-> t,
                envelope |-> NoEnvelope]

\* the catch block of the CallToolRequestSchema handler
DispatchCatch(error) ==
    [kind |-> "throw",
     code |-> McpError(InternalError, <<>>).code,
     message |-> McpError(InternalError, <<"SSH operation failed: ">> \o error.message).message,
     text |-> <<>>, envelope |-> NoEnvelope]

\* the command each handler hands to executeCommand; a synthesized script is
\* named by its tool here and modelled step by step further down
CommandOf(tool, a) ==
    IF tool = "remote-ssh" THEN a["command"] ELSE Str(<<"script of ", tool>>)

\* the return statement after `await sshClient.executeCommand(...)`
OnFulfilled(tool, a, result) ==
    CASE tool = "remote-ssh" ->
            Envelope([success |-> TRUE,
                      output |-> Str(result.output),
                      error |-> Or(result.error, Null),
                      exitCode |-> Or(result.exitCode, Num(0)),
                      host |-> a["host"],
                      command |-> a["command"]])
      [] tool = "ssh-edit-block" ->
            TextBody(<<"Edit block completed on ">> \o Text(a["filePath"]) \o <<"\n">>
                     \o result.output \o <<"\nExit code: ">> \o Text(result.exitCode))
      [] tool = "ssh-read-lines" -> TextBody(result.output)
      [] tool = "ssh-search-code" ->
            TextBody(Or(Str(result.output), Str(<<"No matches found">>)).v)
      [] tool = "ssh-write-chunk" -> TextBody(result.output)

\* the catch block around `await sshClient.executeCommand(...)`
OnRejected(tool, a, message) ==
    CASE tool = "remote-ssh" ->
            Envelope([success |-> FALSE,
                      output |-> Str(<<>>),
                      error |-> Str(message),
                      exitCode |-> Num(1),
                      host |-> a["host"],
                      command |-> a["command"]])
      [] tool = "ssh-edit-block" -> TextBody(<<"Edit block failed: ">> \o message)
      [] tool = "ssh-read-lines" -> TextBody(<<"Read lines failed: ">> \o message)
      [] tool = "ssh-search-code" -> TextBody(<<"Search failed: ">> \o message)
      [] tool = "ssh-write-chunk" -> TextBody(<<"Write chunk failed: ">> \o message)

-----------------------------------------------------------------------------
(* Events delivered by the ssh2 library *)

StdoutChunks == {<<"o">>, <<" ">>}
StderrChunks == {<<"e">>, <<" ">>}
\* (code, signal) of the stream 'close' event: a signal comes with a null code
CloseArgs == {<<Num(0), Null>>, <<Num(2), Null>>, <<Null, Str(<<"SIGKILL">>)>>}
ErrorMessages == {<<"connect ECONNREFUSED">>,
                  <<"All configured authentication methods failed">>}
TimeoutMessage == <<"Timed out while waiting for handshake">>

-----------------------------------------------------------------------------
(* The state machine of one tool call *)

\* everything but the local environment, before a call arrives
Idle ==
    /\ name = ""
    /\ args = Undefined
    /\ pc = "idle"
    /\ promise = NoPromise
    /\ settles = 0
    /\ results = 0
    /\ conn = "none"
    /\ errored = FALSE
    /\ terminates = TRUE
    /\ connects = 0
    /\ execs = 0
    /\ ends = 0
    /\ keyReads = <<>>
    /\ privateKey = <<>>
    /\ command = Undefined
    /\ output = <<>>
    /\ errorOutput = <<>>
    /\ nData = 0
    /\ arrived = <<>>
    /\ closedWith = <<Null, Null>>
    /\ response = NoResponse

\* what a script's run has come to: its position, the target as its last
\* command left it, its stdout and its exit status
Ran(at, t, out, exit) == [pc |-> at, target |-> t, stdout |-> out, exit |-> exit]

\* calls of one tool that can be in flight at once: the server takes the
\* next request while a handler awaits executeCommand
Procs == {1, 2}

\* no file tool has been called
NoCalls ==
    /\ ftool = [p \in Procs |-> "none"]
    /\ fargs = [p \in Procs |-> <<>>]
    /\ fbefore = [p \in Procs |-> target]
    /\ fseen = [p \in Procs |-> <<>>]
    /\ fran = [p \in Procs |-> Ran("none", target, <<>>, 0)]
    /\ ftext = [p \in Procs |-> <<>>]

\* no file tool has been called; the remote target is absent
NoFileOp ==
    /\ shell = "bash"
    /\ target = [kind |-> "absent", bytes |-> <<>>]
    /\ NoCalls

\* no ssh-edit-block call has been made
NoScripts ==
    /\ backups = {}
    /\ now = 0
    /\ oldText = [p \in Procs |-> <<>>]
    /\ newText = [p \in Procs |-> <<>>]
    /\ sedScript = [p \in Procs |-> <<>>]
    /\ spc = [p \in Procs |-> "none"]
    /\ stamp = [p \in Procs |-> 0]
    /\ beforeCount = [p \in Procs |-> 0]
    /\ afterCount = [p \in Procs |-> 0]
    /\ scriptOut = [p \in Procs |-> <<>>]
    /\ scriptExit = [p \in Procs |-> Null]
    /\ preSed = <<>>
    /\ inode = 0
    /\ cpNew = [p \in Procs |-> FALSE]
    /\ cpSeen = [p \in Procs |-> 0]
    /\ cpSource = [p \in Procs |-> <<>>]
    /\ sedTemp = [p \in Procs |-> [ino |-> 0, lines |-> <<>>]]
    /\ opened = [p \in Procs |-> {}]
    /\ nEdits = 0

NoEdit ==
    /\ remoteFile = [kind |-> "absent", lines |-> <<>>]
    /\ NoScripts

\* the key files present on the machine are none, one default or all
Init ==
    /\ fs \in {{}, {defaultKeyPaths[2]}, KeyPaths}
    /\ envKey \in EnvValues
    /\ Idle
    /\ NoFileOp
    /\ NoEdit

\* bookkeeping of a resolve/reject call that turns promise into p
SettleTo(p) ==
    /\ promise' = p
    /\ settles' = IF p # promise THEN settles + 1 ELSE settles
    /\ results' = IF p # promise /\ p.state = "fulfilled" THEN results + 1 ELSE results

\* The CallToolRequestSchema handler up to its first suspension: the switch,
\* the handler's validation, and the synchronous executor of executeCommand
\* (key resolution, handler registration, conn.connect).
CallTool(n, a) ==
    /\ pc = "idle"
    /\ name' = n
    /\ args' = a
    /\ LET thrown == Prologue(n, a)
       IN  IF thrown.thrown
           THEN /\ response' = DispatchCatch(thrown)
                /\ pc' = "done"
                /\ UNCHANGED <<promise, settles, results, conn, connects,
                               keyReads, privateKey, command>>
           ELSE LET k == getPrivateKey(Or(a.v["privateKeyPath"], envKey), fs)
                IN  /\ keyReads' = k.reads
                    /\ privateKey' = k.key
                    /\ command' = CommandOf(n, a.v)
                    /\ pc' = "awaiting"
                    /\ response' = response
                    /\ IF k.ok
                       THEN /\ conn' = "connecting"
                            /\ connects' = connects + 1
                            /\ promise' = Pending
                            /\ UNCHANGED <<settles, results>>
                       ELSE /\ promise' = Reject(Pending, <<"Private key error: ">> \o k.message)
                            /\ settles' = settles + 1
                            /\ UNCHANGED <<results, conn, connects>>
    /\ UNCHANGED <<fileVars, editVars, arrived, closedWith, fs, envKey, errored, terminates, execs, ends, output,
                   errorOutput, nData>>

\* conn.on('ready'): conn.exec(command, callback)
OnReady ==
    /\ conn = "connecting"
    /\ ~errored
    /\ conn' = "execPending"
    /\ execs' = execs + 1
    /\ UNCHANGED <<fileVars, editVars, arrived, closedWith, fs, envKey, name, args, pc, promise, settles, results, errored,
                   terminates, connects, ends, keyReads, privateKey, command, output,
                   errorOutput, nData, response>>

\* the exec callback with err set: conn.end(); reject
OnExecError ==
    /\ conn = "execPending"
    /\ conn' = "failed"
    /\ ends' = ends + 1
    /\ SettleTo(Reject(promise, <<"Execution failed: ">>
                                 \o <<"(SSH) Channel open failure: open failed">>))
    /\ UNCHANGED <<fileVars, editVars, arrived, closedWith, fs, envKey, name, args, pc, errored, terminates, connects,
                   execs, keyReads, privateKey, command, output, errorOutput, nData, response>>

\* the exec callback with a stream: the three stream handlers are registered
OnExecStream(t) ==
    /\ conn = "execPending"
    /\ ~errored
    /\ conn' = "open"
    /\ terminates' = t
    /\ UNCHANGED <<fileVars, editVars, arrived, closedWith, fs, envKey, name, args, pc, promise, settles, results, errored,
                   connects, execs, ends, keyReads, privateKey, command, output, errorOutput,
                   nData, response>>

\* stream.on('data')
OnData(chunk) ==
    /\ conn = "open"
    /\ ~errored
    /\ nData < MaxData
    /\ output' = output \o chunk
    /\ nData' = nData + 1
    /\ arrived' = Append(arrived, [stream |-> "stdout", chunk |-> chunk])
    /\ UNCHANGED <<fileVars, editVars, closedWith, fs, envKey, name, args, pc, promise, settles, results, conn,
                   errored, terminates, connects, execs, ends, keyReads, privateKey, command,
                   errorOutput, response>>

\* a stderr handler that appends to the stdout accumulator
OnStderrDataIntoOutput(chunk) ==
    /\ conn = "open"
    /\ ~errored
    /\ nData < MaxData
    /\ output' = output \o chunk
    /\ nData' = nData + 1
    /\ arrived' = Append(arrived, [stream |-> "stderr", chunk |-> chunk])
    /\ UNCHANGED <<fileVars, editVars, closedWith, fs, envKey, name, args, pc, promise, settles, results, conn,
                   errored, terminates, connects, execs, ends, keyReads, privateKey, command,
                   errorOutput, response>>

\* stream.stderr.on('data')
OnStderrData(chunk) ==
    /\ conn = "open"
    /\ ~errored
    /\ nData < MaxData
    /\ errorOutput' = errorOutput \o chunk
    /\ nData' = nData + 1
    /\ arrived' = Append(arrived, [stream |-> "stderr", chunk |-> chunk])
    /\ UNCHANGED <<fileVars, editVars, closedWith, fs, envKey, name, args, pc, promise, settles, results, conn,
                   errored, terminates, connects, execs, ends, keyReads, privateKey, command,
                   output, response>>

\* a close handler that ends the session and forgets to resolve
OnCloseWithoutResolve(code, signal) ==
    /\ conn = "open"
    /\ terminates \/ errored
    /\ conn' = "closed"
    /\ ends' = ends + 1
    /\ closedWith' = <<code, signal>>
    /\ UNCHANGED <<fileVars, editVars, arrived, fs, envKey, name, args, pc, promise, settles, results, errored,
                   terminates, connects, execs, keyReads, privateKey, command,
                   output, errorOutput, nData, response>>

\* stream.on('close'): conn.end(); resolve.  The channel closes when the
\* remote command has terminated or the connection is gone.
OnClose(code, signal) ==
    /\ conn = "open"
    /\ terminates \/ errored
    /\ conn' = "closed"
    /\ ends' = ends + 1
    /\ SettleTo(Resolve(promise, CloseResult(output, errorOutput, code)))
    /\ closedWith' = <<code, signal>>
    /\ UNCHANGED <<fileVars, editVars, arrived, fs, envKey, name, args, pc, errored, terminates, connects,
                   execs, keyReads, privateKey, command, output, errorOutput, nData, response>>

\* conn.on('error'): reject, nothing else
ErrorHandler(message) ==
    /\ errored' = TRUE
    /\ conn' = IF conn = "connecting" THEN "failed" ELSE conn
    /\ SettleTo(Reject(promise, <<"SSH connection failed: ">> \o message))
    /\ UNCHANGED <<fileVars, editVars, arrived, closedWith, fs, envKey, name, args, pc, terminates, connects, execs, ends,
                   keyReads, privateKey, command, output, errorOutput, nData, response>>

\* the Client emits 'error': network, handshake or authentication failure,
\* or the loss of an established connection
OnError(message) ==
    /\ conn \in {"connecting", "execPending", "open"}
    /\ ~errored
    /\ ErrorHandler(message)

\* the readyTimeout timer of the Client fires before 'ready'
OnReadyTimeout ==
    /\ conn = "connecting"
    /\ ~errored
    /\ config.readyTimeout > 0
    /\ ErrorHandler(TimeoutMessage)

\* the continuation of `await sshClient.executeCommand(...)` in the handler
Resume ==
    /\ pc = "awaiting"
    /\ Settled(promise)
    /\ pc' = "done"
    /\ response' = IF promise.state = "fulfilled"
                   THEN OnFulfilled(name, args.v, promise.result)
                   ELSE OnRejected(name, args.v, promise.message)
    /\ UNCHANGED <<fileVars, editVars, arrived, closedWith, fs, envKey, name, args, promise, settles, results, conn,
                   errored, terminates, connects, execs, ends, keyReads, privateKey, command,
                   output, errorOutput, nData>>

Next ==
    \/ \E n \in RequestNames : \E a \in ArgBags(n) : CallTool(n, a)
    \/ OnReady
    \/ OnExecError
    \/ \E t \in BOOLEAN : OnExecStream(t)
    \/ \E chunk \in StdoutChunks : OnData(chunk)
    \/ \E chunk \in StderrChunks : OnStderrData(chunk)
    \/ \E c \in CloseArgs : OnClose(c[1], c[2])
    \/ \E m \in ErrorMessages : OnError(m)
    \/ OnReadyTimeout
    \/ Resume

Spec == Init /\ [][Next]_vars

\* the bags that pass the handler's validation
ValidBags(tool) == {a \in ArgBags(tool) : a # Undefined /\ ~MissingRequired(tool, a.v)}

\* Key resolution alone, over every set of readable key files
KeyInit ==
    /\ fs \in SUBSET KeyPaths
    /\ envKey \in EnvValues
    /\ Idle
    /\ NoFileOp
    /\ NoEdit

KeyNext ==
    \/ \E n \in ToolNames : \E a \in ValidBags(n) : CallTool(n, a)
    \/ Resume

KeySpec == KeyInit /\ [][KeyNext]_vars

\* One call on a machine with or without key files, under the scheduling the
\* runtime and the library guarantee: the handshake timer fires unless the
\* handshake ended first, the server answers the channel-open request, the
\* channel of a command that terminates closes, and a settled promise's
\* continuation runs.
LiveInit ==
    /\ fs \in {{}, KeyPaths}
    /\ envKey = Undefined
    /\ Idle
    /\ NoFileOp
    /\ NoEdit

LiveSpec ==
    /\ LiveInit
    /\ [][Next]_vars
    /\ WF_vars(OnReadyTimeout)
    /\ WF_vars(OnExecError \/ \E t \in BOOLEAN : OnExecStream(t))
    /\ WF_vars(\E c \in CloseArgs : OnClose(c[1], c[2]))
    /\ WF_vars(Resume)

-----------------------------------------------------------------------------
(* The script of ssh-edit-block, run by the remote shell *)

MaxTextLen == 2
MaxLineLen == 2
MaxLines == 1

\* characters of the texts and of the file: a letter, the three characters
\* the handler escapes, and a regular-expression metacharacter it does not
Alphabet == {"a", "[", "]", "/", "."}

RECURSIVE SeqsUpTo(_, _)
SeqsUpTo(S, n) ==
    IF n = 0 THEN {<<>>}
    ELSE LET shorter == SeqsUpTo(S, n - 1)
         IN  shorter \cup {Append(t, c) : t \in {u \in shorter : Len(u) = n - 1}, c \in S}

Texts == SeqsUpTo(Alphabet, MaxTextLen) \ {<<>>}
Lines == SeqsUpTo(Alphabet, MaxLineLen)
RemoteFiles ==
    {[kind |-> "absent", lines |-> <<>>], [kind |-> "directory", lines |-> <<>>]}
    \cup {[kind |-> "file", lines |-> l] : l \in SeqsUpTo(Lines, MaxLines)}

\* text.replace(/[[\]/]/g, '\\$&'): a backslash before each of [ ] /
RECURSIVE EscapeClass(_)
EscapeClass(text) ==
    IF text = <<>> THEN <<>>
    ELSE IF Head(text) \in {"[", "]", "/"}
         THEN <<"\\", Head(text)>> \o EscapeClass(Tail(text))
         ELSE <<Head(text)>> \o EscapeClass(Tail(text))

\* text.replace(/\//g, '\\/'): a backslash before each /
RECURSIVE EscapeSlash(_)
EscapeSlash(text) ==
    IF text = <<>> THEN <<>>
    ELSE IF Head(text) = "/"
         THEN <<"\\", "/">> \o EscapeSlash(Tail(text))
         ELSE <<Head(text)>> \o EscapeSlash(Tail(text))

\* const escapedOld = oldText.replace(/[[\]/]/g, '\\$&').replace(/\//g, '\\/')
EscapeForSed(text) == EscapeSlash(EscapeClass(text))

\* 's/${escapedOld}/${escapedNew}/g'
SedExpression(old, new) ==
    <<"s", "/">> \o EscapeForSed(old) \o <<"/">> \o EscapeForSed(new) \o <<"/", "g">>

(* sed: reading an s command.  A backslash takes the next character with it; *)
(* an unescaped / ends a field.                                              *)
RECURSIVE SedTokens(_)
SedTokens(e) ==
    IF e = <<>> THEN <<>>
    ELSE IF Head(e) = "\\"
         THEN IF Len(e) >= 2
              THEN <<[k |-> "esc", c |-> e[2]]>> \o SedTokens(SubSeq(e, 3, Len(e)))
              ELSE <<[k |-> "esc", c |-> ""]>>
         ELSE IF Head(e) = "/"
              THEN <<[k |-> "delim", c |-> "/"]>> \o SedTokens(Tail(e))
              ELSE <<[k |-> "lit", c |-> Head(e)]>> \o SedTokens(Tail(e))

\* the tokens up to the first delimiter, and those after it
RECURSIVE FieldEnd(_, _)
FieldEnd(toks, i) ==
    IF i > Len(toks) THEN 0
    ELSE IF toks[i].k = "delim" THEN i ELSE FieldEnd(toks, i + 1)

\* s/pattern/replacement/flags: ok with the pattern and the replacement, or
\* sed's refusal of the expression (every flag other than a single g is an
\* unknown option over this alphabet)
SedParse(e) ==
    LET bad == [ok |-> FALSE, pattern |-> <<>>, replacement |-> <<>>]
        toks == SedTokens(Tail(e))
        rest1 == Tail(toks)
        e1 == FieldEnd(rest1, 1)
        rest2 == SubSeq(rest1, e1 + 1, Len(rest1))
        e2 == FieldEnd(rest2, 1)
        flags == SubSeq(rest2, e2 + 1, Len(rest2))
    IN  IF e = <<>> \/ Head(e) # "s" \/ toks = <<>> \/ toks[1].k # "delim" THEN bad
        ELSE IF e1 = 0 \/ e2 = 0 THEN bad
        ELSE IF e1 = 1 THEN bad   \* an empty pattern: no previous regular expression
        ELSE IF flags # <<[k |-> "lit", c |-> "g"]>> THEN bad
        ELSE [ok |-> TRUE,
              pattern |-> SubSeq(rest1, 1, e1 - 1),
              replacement |-> SubSeq(rest2, 1, e2 - 1)]

\* one token of a basic regular expression against one character: an
\* unescaped . matches any character, everything else stands for itself
TokenMatches(tok, c) ==
    IF tok.k = "lit" /\ tok.c = "." THEN TRUE ELSE tok.c = c

PatternMatchesAt(pattern, line, i) ==
    /\ i + Len(pattern) - 1 <= Len(line)
    /\ \A j \in 1..Len(pattern) : TokenMatches(pattern[j], line[i + j - 1])

\* the text a replacement stands for: \c gives c
ReplacementText(replacement) == [j \in 1..Len(replacement) |-> replacement[j].c]

\* s/pattern/replacement/g on one line: leftmost matches, not overlapping
RECURSIVE SubstituteFrom(_, _, _, _)
SubstituteFrom(pattern, replacement, line, i) ==
    IF i > Len(line) THEN <<>>
    ELSE IF PatternMatchesAt(pattern, line, i)
         THEN ReplacementText(replacement)
              \o SubstituteFrom(pattern, replacement, line, i + Len(pattern))
         ELSE <<line[i]>> \o SubstituteFrom(pattern, replacement, line, i + 1)

\* sed -i EXPRESSION file: the file afterwards, and sed's exit status
SedInPlace(e, lines) ==
    LET p == SedParse(e)
    IN  IF p.ok
        THEN [status |-> 0,
              lines |-> [n \in 1..Len(lines) |->
                            SubstituteFrom(p.pattern, p.replacement, lines[n], 1)]]
        ELSE [status |-> 1, lines |-> lines]

\* text occurs in line as a substring
Contains(line, text) ==
    \E i \in 1..(Len(line) - Len(text) + 1) : SubSeq(line, i, i + Len(text) - 1) = text

\* grep -F "text" file | wc -l: the number of lines that contain the text
GrepCount(text, lines) == Cardinality({n \in 1..Len(lines) : Contains(lines[n], text)})

\* the bytes of a file of lines, and the lines of a file's bytes
RECURSIVE BytesOf(_)
BytesOf(lines) ==
    IF lines = <<>> THEN <<>> ELSE Head(lines) \o <<"\n">> \o BytesOf(Tail(lines))

RECURSIVE LinesOf(_, _)
LinesOf(bytes, line) ==
    IF bytes = <<>> THEN (IF line = <<>> THEN <<>> ELSE <<line>>)
    ELSE IF Head(bytes) = "\n" THEN <<line>> \o LinesOf(Tail(bytes), <<>>)
    ELSE LinesOf(Tail(bytes), Append(line, Head(bytes)))

\* write(fd, bytes) on a descriptor opened without O_APPEND, at offset 0:
\* the bytes replace those at the start of the file, what lies beyond stays
WriteAtStart(old, bytes) == bytes \o SubSeq(old, Len(bytes) + 1, Len(old))

MaxEdits == 2
MaxClock == 1

\* inode numbers of the remote file system for the target and the temporary
\* files of sed -i
Inodes == {0, 1, 2, 3}

EditInit ==
    /\ fs = {}
    /\ envKey = Undefined
    /\ Idle
    /\ NoFileOp
    /\ remoteFile \in RemoteFiles
    /\ NoScripts

\* call p of executeEditBlock builds the script from oldText and newText
\* (both pass the handler's validation: neither is empty) and the remote
\* shell starts it
BuildScript(p, old, new) ==
    /\ spc[p] = "none"
    /\ nEdits < MaxEdits
    /\ nEdits' = nEdits + 1
    /\ oldText' = [oldText EXCEPT ![p] = old]
    /\ newText' = [newText EXCEPT ![p] = new]
    /\ sedScript' = [sedScript EXCEPT ![p] = SedExpression(old, new)]
    /\ spc' = [spc EXCEPT ![p] = "test"]
    /\ UNCHANGED <<fileVars, callVars, tempVars, preSed, remoteFile, backups, now, stamp,
                   beforeCount, afterCount, scriptOut, scriptExit>>

\* if [ ! -f "$filePath" ]; then echo "Error: ..."; exit 1; fi
TestFile(p) ==
    /\ spc[p] = "test"
    /\ IF remoteFile.kind # "file"
       THEN /\ scriptOut' = [scriptOut EXCEPT ![p] = Append(@, "Error: File not found")]
            /\ scriptExit' = [scriptExit EXCEPT ![p] = Num(1)]
            /\ spc' = [spc EXCEPT ![p] = "exited"]
       ELSE /\ spc' = [spc EXCEPT ![p] = "count"]
            /\ UNCHANGED <<scriptOut, scriptExit>>
    /\ UNCHANGED <<fileVars, callVars, tempVars, preSed, remoteFile, backups, now, stamp, nEdits,
                   oldText, newText, sedScript, beforeCount, afterCount>>

\* before_count=$(grep -F "$oldText" "$filePath" | wc -l)
CountBefore(p) ==
    /\ spc[p] = "count"
    /\ beforeCount' = [beforeCount EXCEPT ![p] = GrepCount(oldText[p], remoteFile.lines)]
    /\ spc' = [spc EXCEPT ![p] = "date"]
    /\ UNCHANGED <<fileVars, callVars, tempVars, preSed, remoteFile, backups, now, stamp, nEdits,
                   oldText, newText, sedScript, afterCount, scriptOut, scriptExit>>

\* $(date +%s), expanded before cp is run
Stamp(p) ==
    /\ spc[p] = "date"
    /\ stamp' = [stamp EXCEPT ![p] = now]
    /\ spc' = [spc EXCEPT ![p] = "backup"]
    /\ UNCHANGED <<fileVars, callVars, tempVars, preSed, remoteFile, backups, now, nEdits,
                   oldText, newText, sedScript, beforeCount, afterCount, scriptOut,
                   scriptExit>>

\* cp "$filePath" "$filePath.backup.<stamp>" first looks whether its
\* destination is a directory, and learns whether anything is there
BackupProbe(p) ==
    /\ spc[p] = "backup"
    /\ cpNew' = [cpNew EXCEPT ![p] = \A b \in backups : b.stamp # stamp[p]]
    /\ spc' = [spc EXCEPT ![p] = "examine"]
    /\ UNCHANGED <<fileVars, callVars, preSed, remoteFile, backups, now, stamp, nEdits,
                   oldText, newText, sedScript, beforeCount, afterCount, scriptOut,
                   scriptExit, inode, cpSeen, cpSource, sedTemp, opened>>

\* cp examines the file (stat) before it opens it
BackupExamine(p) ==
    /\ spc[p] = "examine"
    /\ cpSeen' = [cpSeen EXCEPT ![p] = inode]
    /\ spc' = [spc EXCEPT ![p] = "open"]
    /\ UNCHANGED <<fileVars, callVars, preSed, remoteFile, backups, now, stamp, nEdits,
                   oldText, newText, sedScript, beforeCount, afterCount, scriptOut,
                   scriptExit, inode, cpNew, cpSource, sedTemp, opened>>

\* cp opens the file for reading.  When the file it opened is not the one
\* it examined, cp skips it ("replaced while being copied") and fails
\* without touching the destination; the script goes on.  What cp holds
\* open stays as it is when sed -i renames another file over the target.
BackupOpen(p) ==
    /\ spc[p] = "open"
    /\ IF inode = cpSeen[p]
       THEN /\ cpSource' = [cpSource EXCEPT ![p] = remoteFile.lines]
            /\ opened' = [opened EXCEPT ![p] = {inode}]
            /\ spc' = [spc EXCEPT ![p] = "create"]
       ELSE /\ spc' = [spc EXCEPT ![p] = "sed"]
            /\ UNCHANGED <<cpSource, opened>>
    /\ UNCHANGED <<fileVars, callVars, preSed, remoteFile, backups, now, stamp, nEdits,
                   oldText, newText, sedScript, beforeCount, afterCount, scriptOut,
                   scriptExit, inode, cpNew, cpSeen, sedTemp>>

\* cp opens its destination for writing: with O_CREAT|O_EXCL when nothing
\* was there as it started, and then a backup of that name made since makes
\* cp fail ("cannot create regular file ...: File exists") without copying,
\* and the script goes on; with O_TRUNC when a backup was there, which
\* empties it
BackupCreate(p) ==
    /\ spc[p] = "create"
    /\ IF cpNew[p] /\ \E b \in backups : b.stamp = stamp[p]
       THEN /\ cpSource' = [cpSource EXCEPT ![p] = <<>>]
            /\ opened' = [opened EXCEPT ![p] = {}]
            /\ spc' = [spc EXCEPT ![p] = "sed"]
            /\ UNCHANGED backups
       ELSE /\ backups' = {b \in backups : b.stamp # stamp[p]}
                           \cup {[stamp |-> stamp[p], lines |-> <<>>]}
            /\ spc' = [spc EXCEPT ![p] = "copy"]
            /\ UNCHANGED <<cpSource, opened>>
    /\ UNCHANGED <<fileVars, callVars, preSed, remoteFile, now, stamp, nEdits,
                   oldText, newText, sedScript, beforeCount, afterCount, scriptOut,
                   scriptExit, inode, cpNew, cpSeen, sedTemp>>

\* cp writes what it read to the start of its destination and closes both
BackupCopy(p) ==
    /\ spc[p] = "copy"
    /\ LET dest == CHOOSE b \in backups : b.stamp = stamp[p]
           written == LinesOf(WriteAtStart(BytesOf(dest.lines), BytesOf(cpSource[p])), <<>>)
       IN  backups' = (backups \ {dest}) \cup {[stamp |-> stamp[p], lines |-> written]}
    /\ cpSource' = [cpSource EXCEPT ![p] = <<>>]
    /\ opened' = [opened EXCEPT ![p] = {}]
    /\ spc' = [spc EXCEPT ![p] = "sed"]
    /\ UNCHANGED <<fileVars, callVars, preSed, remoteFile, now, stamp, nEdits,
                   oldText, newText, sedScript, beforeCount, afterCount, scriptOut,
                   scriptExit, inode, cpNew, cpSeen, sedTemp>>

\* sed -i 's/.../.../g' "$filePath" opens the file for reading: what it
\* substitutes in is the file of that moment, whatever is renamed over the
\* target later; an expression sed rejects ends it before it opens the file
SedOpen(p) ==
    /\ spc[p] = "sed"
    /\ IF SedInPlace(sedScript[p], remoteFile.lines).status = 0
       THEN /\ sedTemp' = [sedTemp EXCEPT ![p].lines =
                              SedInPlace(sedScript[p], remoteFile.lines).lines]
            /\ opened' = [opened EXCEPT ![p] = {inode}]
            /\ spc' = [spc EXCEPT ![p] = "temp"]
       ELSE /\ spc' = [spc EXCEPT ![p] = "recount"]
            /\ UNCHANGED <<sedTemp, opened>>
    /\ preSed' = Append(preSed, remoteFile.lines)
    /\ UNCHANGED <<fileVars, callVars, remoteFile, backups, now, stamp, nEdits, oldText,
                   newText, sedScript, beforeCount, afterCount, scriptOut, scriptExit,
                   inode, cpNew, cpSeen, cpSource>>

\* sed -i creates its temporary file, to which the file system gives any
\* inode number no file holds, also one a replaced file has given up once
\* nothing holds that file open; sed writes the result there and closes the
\* file it read
SedTemp(p, ino) ==
    /\ spc[p] = "temp"
    /\ ino \in Inodes \ ({inode} \cup UNION {opened[q] : q \in Procs}
                          \cup {sedTemp[q].ino : q \in {r \in Procs : spc[r] = "rename"}})
    /\ sedTemp' = [sedTemp EXCEPT ![p].ino = ino]
    /\ opened' = [opened EXCEPT ![p] = {}]
    /\ spc' = [spc EXCEPT ![p] = "rename"]
    /\ UNCHANGED <<fileVars, callVars, preSed, remoteFile, backups, now, stamp, nEdits,
                   oldText, newText, sedScript, beforeCount, afterCount, scriptOut,
                   scriptExit, inode, cpNew, cpSeen, cpSource>>

\* sed -i renames its temporary file over the target
SedRename(p) ==
    /\ spc[p] = "rename"
    /\ remoteFile' = [remoteFile EXCEPT !.lines = sedTemp[p].lines]
    /\ inode' = sedTemp[p].ino
    /\ sedTemp' = [sedTemp EXCEPT ![p] = [ino |-> 0, lines |-> <<>>]]
    /\ spc' = [spc EXCEPT ![p] = "recount"]
    /\ UNCHANGED <<fileVars, callVars, preSed, backups, now, stamp, nEdits,
                   oldText, newText, sedScript, beforeCount, afterCount, scriptOut,
                   scriptExit, cpNew, cpSeen, cpSource, opened>>

\* after_count=$(grep -F "$newText" "$filePath" | wc -l)
CountAfter(p) ==
    /\ spc[p] = "recount"
    /\ afterCount' = [afterCount EXCEPT ![p] = GrepCount(newText[p], remoteFile.lines)]
    /\ spc' = [spc EXCEPT ![p] = "report"]
    /\ UNCHANGED <<fileVars, callVars, tempVars, preSed, remoteFile, backups, now, stamp, nEdits,
                   oldText, newText, sedScript, beforeCount, scriptOut, scriptExit>>

\* the two echo lines, then exit 2 with the warning if before_count is 0;
\* otherwise the script ends with the status of its last command, 0
Report(p) ==
    /\ spc[p] = "report"
    /\ LET made == (beforeCount[p] - afterCount[p]) + afterCount[p]
           report == <<"Replacements made: " , NumText(made), "Expected: 1">>
       IN  IF beforeCount[p] = 0
           THEN /\ scriptOut' = [scriptOut EXCEPT ![p] =
                                    @ \o report \o <<"Warning: Pattern not found in file">>]
                /\ scriptExit' = [scriptExit EXCEPT ![p] = Num(2)]
           ELSE /\ scriptOut' = [scriptOut EXCEPT ![p] = @ \o report]
                /\ scriptExit' = [scriptExit EXCEPT ![p] = Num(0)]
    /\ spc' = [spc EXCEPT ![p] = "exited"]
    /\ UNCHANGED <<fileVars, callVars, tempVars, preSed, remoteFile, backups, now, stamp, nEdits,
                   oldText, newText, sedScript, beforeCount, afterCount>>

\* one call of ssh-edit-block, over all its inputs
EditNext ==
    \/ \E old \in Texts, new \in Texts : BuildScript(1, old, new)
    \/ TestFile(1)
    \/ CountBefore(1)
    \/ Stamp(1)
    \/ BackupProbe(1)
    \/ BackupExamine(1)
    \/ BackupOpen(1)
    \/ BackupCreate(1)
    \/ BackupCopy(1)
    \/ SedOpen(1)
    \/ \E ino \in Inodes : SedTemp(1, ino)
    \/ SedRename(1)
    \/ CountAfter(1)
    \/ Report(1)

EditSpec == EditInit /\ [][EditNext]_vars

(* ssh-edit-block calls on one file, one after another or in flight  *)
(* together, with the remote clock running                           *)

RepeatInit ==
    /\ EditInit
    /\ remoteFile \in {[kind |-> "file", lines |-> << <<"a">> >>],
                       [kind |-> "file", lines |-> << <<"a", ".">> >>],
                       [kind |-> "absent", lines |-> <<>>]}

\* the remote clock reaches the next second
Tick ==
    /\ now < MaxClock
    /\ now' = now + 1
    /\ UNCHANGED <<fileVars, callVars, tempVars, preSed, remoteFile, backups, stamp, nEdits,
                   oldText, newText, sedScript, spc, beforeCount, afterCount,
                   scriptOut, scriptExit>>

\* script p has exited and the handler has returned its report; a later
\* call's script starts in a new shell, with nothing left of this one's
\* variables and output
Return(p) ==
    /\ spc[p] = "exited"
    /\ nEdits < MaxEdits
    /\ spc' = [spc EXCEPT ![p] = "none"]
    /\ beforeCount' = [beforeCount EXCEPT ![p] = 0]
    /\ afterCount' = [afterCount EXCEPT ![p] = 0]
    /\ scriptOut' = [scriptOut EXCEPT ![p] = <<>>]
    /\ scriptExit' = [scriptExit EXCEPT ![p] = Null]
    /\ UNCHANGED <<fileVars, callVars, tempVars, preSed, remoteFile, backups, now, stamp, nEdits,
                   oldText, newText, sedScript>>

RepeatNext ==
    \* texts without any character special to sed
    \/ \E p \in Procs, old \in {<<"a">>, <<"a", "a">>}, new \in {<<"a">>, <<"a", "a">>} :
            BuildScript(p, old, new)
    \/ \E p \in Procs : TestFile(p)
    \/ \E p \in Procs : CountBefore(p)
    \/ \E p \in Procs : Stamp(p)
    \/ \E p \in Procs : BackupProbe(p)
    \/ \E p \in Procs : BackupExamine(p)
    \/ \E p \in Procs : BackupOpen(p)
    \/ \E p \in Procs : BackupCreate(p)
    \/ \E p \in Procs : BackupCopy(p)
    \/ \E p \in Procs : SedOpen(p)
    \/ \E p \in Procs, ino \in Inodes : SedTemp(p, ino)
    \/ \E p \in Procs : SedRename(p)
    \/ \E p \in Procs : CountAfter(p)
    \/ \E p \in Procs : Report(p)
    \/ \E p \in Procs : Return(p)
    \/ Tick

RepeatSpec == RepeatInit /\ [][RepeatNext]_vars

-----------------------------------------------------------------------------
(* The scripts of ssh-write-chunk, ssh-read-lines and ssh-search-code, run   *)
(* by the remote login shell.  A file is its bytes, a sequence of tokens in  *)
(* which "\n" is the newline; the transport is the one modelled above, here  *)
(* taken on its successful path: the script's stdout and exit status reach   *)
(* the handler through CloseResult and OnFulfilled.                          *)

MaxLineNo == 3
MaxResults == 2

\* filePath of write-chunk and read-lines; path of search-code
TargetPath == <<"/tmp/x.txt">>
SearchPath == <<"/tmp">>

\* content of write-chunk: plain text, text with single quotes, and the one
\* text both shells' echo takes for an option
Contents == {<<"A">>, <<"B">>, <<"'">>, <<"A", "'", "B">>, <<"-n">>}
WriteModes == {Undefined, Str(<<"rewrite">>), Str(<<"append">>), Bool(TRUE)}

FileOf(bytes) == [kind |-> "file", bytes |-> bytes]

\* what is at TargetPath before the first tool runs
TargetSamples ==
    {[kind |-> "absent", bytes |-> <<>>],
     [kind |-> "dir", bytes |-> <<>>],
     FileOf(<<>>),
     FileOf(<<"A", "\n", "B", "\n", "B", "\n">>),
     FileOf(<<"A", "B", "\n", "B">>)}

\* wc -l: the number of newline characters
RECURSIVE WcLines(_)
WcLines(bytes) ==
    IF bytes = <<>> THEN 0
    ELSE (IF Head(bytes) = "\n" THEN 1 ELSE 0) + WcLines(Tail(bytes))

\* wc -c: the number of bytes ("-n" is a two-character token)
RECURSIVE WcBytes(_)
WcBytes(bytes) ==
    IF bytes = <<>> THEN 0
    ELSE (IF Head(bytes) = "-n" THEN 2 ELSE 1) + WcBytes(Tail(bytes))

\* position of the first newline, 0 when there is none
FirstNewline(bytes) ==
    IF \E i \in 1..Len(bytes) : bytes[i] = "\n"
    THEN CHOOSE i \in 1..Len(bytes) :
            /\ bytes[i] = "\n"
            /\ \A j \in 1..(i - 1) : bytes[j] # "\n"
    ELSE 0

\* the lines sed, grep and head read: newline-terminated runs, and a last run
\* without newline if the file ends in one
RECURSIVE SplitLines(_)
SplitLines(bytes) ==
    IF bytes = <<>> THEN <<>>
    ELSE IF FirstNewline(bytes) = 0 THEN <<bytes>>
    ELSE <<SubSeq(bytes, 1, FirstNewline(bytes) - 1)>>
         \o SplitLines(SubSeq(bytes, FirstNewline(bytes) + 1, Len(bytes)))

EndsWithNewline(bytes) == bytes # <<>> /\ bytes[Len(bytes)] = "\n"

\* sed prints line i as it read it: without newline only if it is the last
\* line and the file had none there
RECURSIVE SedPrintFrom(_, _, _, _)
SedPrintFrom(lines, eol, i, last) ==
    IF i > last \/ i > Len(lines) THEN <<>>
    ELSE lines[i]
         \o (IF i = Len(lines) /\ ~eol THEN <<>> ELSE <<"\n">>)
         \o SedPrintFrom(lines, eol, i + 1, last)

\* sed -n 'first,lastp': an address range whose second line number is not
\* beyond the first matches the first line alone
SedPrint(bytes, first, last) ==
    SedPrintFrom(SplitLines(bytes), EndsWithNewline(bytes), first,
                 IF last < first THEN first ELSE last)

\* sed -n 'first,$p'
SedPrintToEnd(bytes, first) ==
    SedPrintFrom(SplitLines(bytes), EndsWithNewline(bytes), first,
                 Len(SplitLines(bytes)))

\* head -m: the first m lines of its input
RECURSIVE HeadLines(_, _)
HeadLines(bytes, m) ==
    IF m <= 0 \/ bytes = <<>> THEN <<>>
    ELSE IF FirstNewline(bytes) = 0 THEN bytes
    ELSE SubSeq(bytes, 1, FirstNewline(bytes))
         \o HeadLines(SubSeq(bytes, FirstNewline(bytes) + 1, Len(bytes)), m - 1)

(* ssh-write-chunk *)

\* content.replace(/'/g, "'\"'\"'")
RECURSIVE EscapeQuotes(_)
EscapeQuotes(content) ==
    IF content = <<>> THEN <<>>
    ELSE (IF Head(content) = "'" THEN <<"'", "\"", "'", "\"", "'">>
          ELSE <<Head(content)>>)
         \o EscapeQuotes(Tail(content))

\* the word after echo in writeCommand
EchoWord(content) == <<"'">> \o EscapeQuotes(content) \o <<"'">>

\* the shell's quote removal on a word of quoted and unquoted parts: q is the
\* quote the scan is inside ("" outside any), ok is FALSE for a word that
\* ends inside a quote
RECURSIVE Unquote(_, _)
Unquote(word, q) ==
    IF word = <<>> THEN [ok |-> q = "", text |-> <<>>]
    ELSE IF q = "" /\ Head(word) \in {"'", "\""} THEN Unquote(Tail(word), Head(word))
    ELSE IF q # "" /\ Head(word) = q THEN Unquote(Tail(word), "")
    ELSE [ok |-> Unquote(Tail(word), q).ok,
          text |-> <<Head(word)>> \o Unquote(Tail(word), q).text]

\* echo: its argument and a newline; -n alone is the option that suppresses
\* the newline, with no argument left to print
EchoBytes(arg) == IF arg = <<"-n">> THEN <<>> ELSE arg \o <<"\n">>

\* mode = 'rewrite' default of the destructuring
ModeOf(a) == IF a.mode = Undefined THEN Str(<<"rewrite">>) ELSE a.mode

\* the redirection of writeCommand, made by the shell before echo runs:
\* >> opens the file for appending and > empties it; both create a missing
\* file and fail on a directory
OpenRedirect(t, a) ==
    IF t.kind = "dir" THEN t
    ELSE IF ModeOf(a) = Str(<<"append">>) THEN FileOf(t.bytes)
    ELSE FileOf(<<>>)

\* echo '...' writes to the descriptor the redirection opened: at the end of
\* the file for >>, at offset 0 for >
WriteCommand(t, a) ==
    IF ModeOf(a) = Str(<<"append">>)
    THEN FileOf(t.bytes \o EchoBytes(Unquote(EchoWord(a.content), "").text))
    ELSE FileOf(WriteAtStart(t.bytes, EchoBytes(Unquote(EchoWord(a.content), "").text)))

\* echo "Successfully wrote to ${filePath} (mode: ${mode})"
WroteLine(a) ==
    <<"Successfully wrote to ">> \o TargetPath \o <<" (mode: ">>
    \o Text(ModeOf(a)) \o <<")", "\n">>

\* echo "File size: $(wc -c < "${filePath}") bytes"
SizeLine(bytes) == <<"File size: ", NumText(WcBytes(bytes)), " bytes", "\n">>

\* echo "Line count: $(wc -l < "${filePath}") lines"
CountLine(bytes) == <<"Line count: ", NumText(WcLines(bytes)), " lines", "\n">>

\* the script of executeWriteChunk up to the redirection of writeCommand:
\* mkdir -p and the opening of the file.  A word left open in a quote is a
\* syntax error of the shell; a failed redirection takes the else branch.
WriteStart(t, a) ==
    IF ~Unquote(EchoWord(a.content), "").ok THEN Ran("returned", t, <<>>, 2)
    ELSE IF t.kind = "dir"
    THEN Ran("returned", t, <<"Failed to write to ">> \o TargetPath \o <<"\n">>, 1)
    ELSE Ran("echo", OpenRedirect(t, a), <<>>, 0)

(* ssh-read-lines *)

\* startLine = 1 and maxLines = 100 defaults of the destructuring
StartLineOf(a) == IF a.startLine = Undefined THEN 1 ELSE a.startLine.v
MaxLinesOf(a) == IF a.maxLines = Undefined THEN 100 ELSE a.maxLines.v

\* readCommand
ReadCommand(bytes, a) ==
    IF Truthy(a.endLine)
    THEN SedPrint(bytes, StartLineOf(a), a.endLine.v)
    ELSE HeadLines(SedPrintToEnd(bytes, StartLineOf(a)), MaxLinesOf(a))

\* echo "File: ${filePath} (\${total_lines} total lines)"
FileHeader(bytes) ==
    <<"File: ">> \o TargetPath \o <<" (", NumText(WcLines(bytes)), " total lines)", "\n">>

\* echo "Reading lines ${startLine}-\${endLine || 'end'} (max ${maxLines})":
\* the backslash keeps ${endLine || 'end'} out of the template, so the shell
\* is handed it as a parameter expansion.  It is none: the shell reports a
\* bad substitution on stderr and the echo writes nothing.
RangeHeader(a) == <<>>

ContentMarker == "--- Content ---"

\* the script of executeReadLines up to its exit on a target that is no
\* regular file
ReadStart(t) ==
    IF t.kind # "file"
    THEN Ran("returned", t, <<"Error: File ">> \o TargetPath \o <<" not found", "\n">>, 1)
    ELSE Ran("count", t, <<>>, 0)

\* total_lines=$(wc -l < file), which read the given bytes, and the three
\* echo lines: bash goes on to the next command after the bad substitution
\* of the second, dash ends the script with status 2
ReadHeader(sh, t, bytes, a) ==
    IF sh = "dash" THEN Ran("returned", t, FileHeader(bytes), 2)
    ELSE Ran("read", t, FileHeader(bytes) \o RangeHeader(a) \o <<ContentMarker, "\n">>, 0)

(* ssh-search-code *)

\* ignoreCase = false, contextLines = 2 and maxResults = 50 defaults
IgnoreCaseOf(a) == Truthy(a.ignoreCase)
ContextOf(a) == IF a.contextLines = Undefined THEN 2 ELSE a.contextLines.v
MaxResultsOf(a) == IF a.maxResults = Undefined THEN 50 ELSE a.maxResults.v

\* grep -i compares letters without their case
FoldCase(c) == IF c = "a" THEN "A" ELSE IF c = "b" THEN "B" ELSE c

\* grep: the line has the pattern somewhere (patterns here are letters)
LineMatches(line, pattern, ic) ==
    \E i \in 1..(Len(line) - Len(pattern) + 1) :
        \A k \in 1..Len(pattern) :
            IF ic THEN FoldCase(line[i + k - 1]) = FoldCase(pattern[k])
            ELSE line[i + k - 1] = pattern[k]

\* find "${path}" ${findPattern}: the target is the one file under the
\* directory; -name "*.txt" selects it, -name "*.md" does not
FoundFile(t, a) ==
    /\ t.kind = "file"
    /\ Truthy(a.filePattern) => a.filePattern = Str(<<"*.txt">>)

\* grep -C: line i is printed if a matching line is within ctx lines of it
Selected(lines, a, i) ==
    \E j \in 1..Len(lines) :
        /\ LineMatches(lines[j], a.pattern.v, IgnoreCaseOf(a))
        /\ j - i <= ContextOf(a)
        /\ i - j <= ContextOf(a)

\* grep -n [-i] [-C n] on the one file: "n:line" for a match, "n-line" for a
\* context line and, with -C, "--" between groups that are not adjacent
RECURSIVE GrepFrom(_, _, _, _)
GrepFrom(lines, a, i, prev) ==
    IF i > Len(lines) THEN <<>>
    ELSE IF ~Selected(lines, a, i) THEN GrepFrom(lines, a, i + 1, prev)
    ELSE (IF ContextOf(a) > 0 /\ prev > 0 /\ prev < i - 1
          THEN <<"--", "\n">> ELSE <<>>)
         \o <<NumText(i),
              IF LineMatches(lines[i], a.pattern.v, IgnoreCaseOf(a)) THEN ":" ELSE "-">>
         \o lines[i] \o <<"\n">>
         \o GrepFrom(lines, a, i + 1, i)

\* find ... -exec grep ... {} + 2>/dev/null | head -${maxResults}
SearchResults(t, a) ==
    IF FoundFile(t, a)
    THEN HeadLines(GrepFrom(SplitLines(t.bytes), a, 1, 0), MaxResultsOf(a))
    ELSE <<>>

\* the four echo lines before the results
SearchHeader(a) ==
    <<"Searching in: ">> \o a.path \o <<"\n">>
    \o <<"Pattern: ">> \o a.pattern.v \o <<"\n">>
    \o <<"File pattern: ">> \o Or(a.filePattern, Str(<<"all files">>)).v \o <<"\n">>
    \o <<"--- Results ---", "\n">>

\* the script of executeSearchCode up to the find command
SearchStart(t, a) ==
    IF a.path # SearchPath
    THEN Ran("returned", t, <<"Error: Directory ">> \o a.path \o <<" not found", "\n">>, 1)
    ELSE Ran("find", t, SearchHeader(a), 0)

\* the text the handler returns once the script has exited and the channel
\* has closed
ToolText(tool, ran) ==
    IF ran.pc = "returned"
    THEN OnFulfilled(tool, <<>>, CloseResult(ran.stdout, <<>>, Num(ran.exit))).text
    ELSE <<>>

FileInit ==
    /\ fs = {}
    /\ envKey = Undefined
    /\ Idle
    /\ NoEdit
    /\ shell \in {"bash", "dash"}
    /\ target \in TargetSamples
    /\ NoCalls

\* call p is made: the handler builds the script and the remote shell runs
\* it up to and including its first command on the target
Start(p, tool, a, ran) ==
    /\ ftool[p] = "none"
    /\ \A q \in Procs : q < p => ftool[q] # "none"
    /\ ftool' = [ftool EXCEPT ![p] = tool]
    /\ fargs' = [fargs EXCEPT ![p] = a]
    /\ fbefore' = [fbefore EXCEPT ![p] = target]
    /\ fran' = [fran EXCEPT ![p] = ran]
    /\ target' = ran.target
    /\ ftext' = [ftext EXCEPT ![p] = ToolText(tool, ran)]
    /\ UNCHANGED <<callVars, editVars, shell, fseen>>

\* the script of call p ends its command at position `at`, which found the
\* target as `found`
Step(p, tool, at, found, ran) ==
    /\ ftool[p] = tool
    /\ fran[p].pc = at
    /\ fbefore' = [fbefore EXCEPT ![p] = found]
    /\ fseen' = [fseen EXCEPT ![p] = <<>>]
    /\ fran' = [fran EXCEPT ![p] = ran]
    /\ target' = ran.target
    /\ ftext' = [ftext EXCEPT ![p] = ToolText(tool, ran)]
    /\ UNCHANGED <<callVars, editVars, shell, ftool, fargs>>

\* what a read() of the running command of call p returns: the bytes of the
\* target from the offset its earlier reads have reached, none when the
\* file ends at or before it
Unread(p) == SubSeq(target.bytes, Len(fseen[p]) + 1, Len(target.bytes))

\* wc, sed -n and grep read the file with read() after read() until one
\* returns nothing; this is a read() that returns bytes
ReadOn(p) ==
    /\ fran[p].pc \in {"bytes", "lines", "count", "read", "grep"}
    /\ Unread(p) # <<>>
    /\ fseen' = [fseen EXCEPT ![p] = @ \o Unread(p)]
    /\ UNCHANGED <<callVars, editVars, shell, target, ftool, fargs, fbefore, fran, ftext>>

\* executeWriteChunk: mkdir -p and the redirection of writeCommand
WriteChunk(p, content, mode) ==
    Start(p, "ssh-write-chunk", [content |-> content, mode |-> mode],
          WriteStart(target, [content |-> content, mode |-> mode]))

\* echo writes the content; the first report line
WriteEcho(p) ==
    Step(p, "ssh-write-chunk", "echo", target,
         Ran("size", WriteCommand(target, fargs[p]), WroteLine(fargs[p]), 0))

\* echo "File size: $(wc -c < file) bytes": wc -c takes the size fstat
\* gives it, and reads the file to count its bytes when that size is 0
WriteSize(p) ==
    Step(p, "ssh-write-chunk", "size", target,
         IF target.bytes # <<>>
         THEN Ran("lines", target, fran[p].stdout \o SizeLine(target.bytes), 0)
         ELSE Ran("bytes", target, fran[p].stdout, 0))

\* the size line of a file wc -c has read, once a read() has returned nothing
WriteSizeRead(p) ==
    /\ Unread(p) = <<>>
    /\ Step(p, "ssh-write-chunk", "bytes", FileOf(fseen[p]),
            Ran("lines", target, fran[p].stdout \o SizeLine(fseen[p]), 0))

\* echo "Line count: $(wc -l < file) lines", once a read() of wc has
\* returned nothing; the script ends and the handler returns its output
WriteCount(p) ==
    /\ Unread(p) = <<>>
    /\ Step(p, "ssh-write-chunk", "lines", FileOf(fseen[p]),
            Ran("returned", target, fran[p].stdout \o CountLine(fseen[p]), 0))

\* executeReadLines: the test for a regular file
ReadLines(p, startLine, endLine, maxLines) ==
    Start(p, "ssh-read-lines",
          [startLine |-> startLine, endLine |-> endLine, maxLines |-> maxLines],
          ReadStart(target))

\* total_lines=$(wc -l < file), once a read() of wc has returned nothing,
\* and the header
ReadCount(p) ==
    /\ Unread(p) = <<>>
    /\ Step(p, "ssh-read-lines", "count", FileOf(fseen[p]),
            ReadHeader(shell, target, fseen[p], fargs[p]))

\* readCommand, once a read() of sed has returned nothing; the script ends
\* and the handler returns its output
ReadRange(p) ==
    /\ Unread(p) = <<>>
    /\ Step(p, "ssh-read-lines", "read", FileOf(fseen[p]),
            Ran("returned", target,
                fran[p].stdout \o ReadCommand(fseen[p], fargs[p]), 0))

\* executeSearchCode: the test for a directory and the header
SearchCode(p, a) == Start(p, "ssh-search-code", a, SearchStart(target, a))

\* find walks the directory; it runs grep on the file it selected, and
\* without one the pipeline prints nothing and the script ends
SearchFind(p) ==
    Step(p, "ssh-search-code", "find", target,
         IF FoundFile(target, fargs[p])
         THEN Ran("grep", target, fran[p].stdout, 0)
         ELSE Ran("returned", target,
                  fran[p].stdout \o SearchResults(target, fargs[p]), 0))

\* grep ... | head, once a read() of grep has returned nothing; the script
\* ends and the handler returns its output
SearchGrep(p) ==
    /\ Unread(p) = <<>>
    /\ Step(p, "ssh-search-code", "grep", FileOf(fseen[p]),
            Ran("returned", target,
                fran[p].stdout \o SearchResults(FileOf(fseen[p]), fargs[p]), 0))

SearchDefaults ==
    [path |-> SearchPath, pattern |-> Str(<<"A">>), filePattern |-> Undefined,
     ignoreCase |-> Undefined, contextLines |-> Undefined, maxResults |-> Undefined]

SearchArgs ==
    {SearchDefaults,
     [SearchDefaults EXCEPT !.path = <<"/nodir">>],
     [SearchDefaults EXCEPT !.pattern = Str(<<"a">>)],
     [SearchDefaults EXCEPT !.pattern = Str(<<"a">>), !.ignoreCase = Bool(TRUE)],
     [SearchDefaults EXCEPT !.pattern = Str(<<"a">>), !.ignoreCase = Bool(FALSE)],
     [SearchDefaults EXCEPT !.filePattern = Str(<<"*.md">>)],
     [SearchDefaults EXCEPT !.filePattern = Str(<<"*.txt">>)],
     [SearchDefaults EXCEPT !.contextLines = Num(0)],
     [SearchDefaults EXCEPT !.contextLines = Num(1)],
     [SearchDefaults EXCEPT !.maxResults = Num(MaxResults)],
     [SearchDefaults EXCEPT !.contextLines = Num(1), !.maxResults = Num(MaxResults)]}

FileNext ==
    \/ \E p \in Procs, content \in Contents, mode \in WriteModes :
            WriteChunk(p, content, mode)
    \/ \E p \in Procs : WriteEcho(p)
    \/ \E p \in Procs : WriteSize(p)
    \/ \E p \in Procs : WriteSizeRead(p)
    \/ \E p \in Procs : WriteCount(p)
    \/ \E p \in Procs, startLine \in {Undefined, Num(2), Num(MaxLineNo)},
          endLine \in {Undefined, Num(0), Num(2)}, maxLines \in {Undefined, Num(1)} :
            ReadLines(p, startLine, endLine, maxLines)
    \/ \E p \in Procs : ReadCount(p)
    \/ \E p \in Procs : ReadRange(p)
    \/ \E p \in Procs, a \in SearchArgs : SearchCode(p, a)
    \/ \E p \in Procs : SearchFind(p)
    \/ \E p \in Procs : SearchGrep(p)
    \/ \E p \in Procs : ReadOn(p)

FileSpec == FileInit /\ [][FileNext]_vars

-----------------------------------------------------------------------------
(* Properties *)

FileTools == ToolNames \ {"remote-ssh"}

\* the call's bag lacks a required argument (or is absent altogether)
LacksRequired ==
    \/ args = Undefined
    \/ \E f \in Required(name) : ~Truthy(args.v[f])

KeyFailed == promise.state = "rejected" /\ connects = 0

\* C1: every executeCommand call that issued conn.connect and has settled
\* has ended its session with conn.end, whichever way it settled.
C1_SessionEndedWhenSettled ==
    (connects > 0 /\ Settled(promise)) => ends >= 1

\* C2: the remote-ssh handler never raises: whatever the argument bag and
\* whatever happens, a finished call has returned the structured envelope,
\* with success = false whenever an error occurred.
C2_RemoteSshNeverRaises ==
    (name = "remote-ssh" /\ pc = "done") =>
        /\ response.kind = "envelope"
        /\ (promise.state # "fulfilled" => ~response.envelope.success)

FailurePrefix(tool) ==
    CASE tool = "ssh-edit-block" -> "Edit block failed: "
      [] tool = "ssh-read-lines" -> "Read lines failed: "
      [] tool = "ssh-search-code" -> "Search failed: "
      [] tool = "ssh-write-chunk" -> "Write chunk failed: "
      [] OTHER -> ""

\* C3: the four file-operation tools turn every error, validation included,
\* into a returned plain-text failure line; none is thrown to the dispatch layer.
C3_FileToolsNeverThrow ==
    (name \in FileTools /\ pc = "done") =>
        /\ response.kind = "text"
        /\ (promise.state # "fulfilled" =>
                /\ response.text # <<>>
                /\ Head(response.text) = FailurePrefix(name)
                /\ \A i \in 1..Len(response.text) : response.text[i] # "\n")

C5_EventuallySettles ==
    (promise.state = "pending") ~> Settled(promise)

\* C5 as amended: only the wait for session readiness is bounded, by the
\* readyTimeout; a call waiting for it gets 'ready' or 'error' in the end.
\* After that a call settles when the channel closes or the connection emits
\* 'error': with a command that terminates it settles, with one that never
\* terminates on a live connection it stays pending forever.
C5_ReadyWaitBounded ==
    /\ (conn = "connecting") ~> (conn # "connecting")
    /\ (conn = "open" /\ terminates) ~> Settled(promise)

C5_Witness ==
    /\ promise.state = "rejected"
    /\ promise.message = <<"SSH connection failed: ">> \o TimeoutMessage
    /\ execs = 0

\* C6: in all five tools a missing required argument is detected before any
\* network activity: no key file is read, no session is opened and no command
\* is executed for a call that fails validation.
C6_ValidationBeforeNetwork ==
    (pc # "idle" /\ name \in ToolNames /\ LacksRequired) =>
        /\ keyReads = <<>>
        /\ connects = 0
        /\ execs = 0
        /\ promise = NoPromise
        /\ pc = "done"
        /\ response.kind = "throw"

C6_Witness ==
    /\ pc = "done"
    /\ name = "ssh-write-chunk"
    /\ args # Undefined
    /\ args.v["content"] = Str(<<>>)
    /\ args.v["host"] = Str(<<"v">>)
    /\ fs = KeyPaths
    /\ keyReads = <<>>

\* the default paths up to and including the first readable one
DefaultsTried ==
    IF defaultKeyPaths[1] \in fs THEN <<defaultKeyPaths[1]>>
    ELSE IF defaultKeyPaths[2] \in fs THEN <<defaultKeyPaths[1], defaultKeyPaths[2]>>
    ELSE defaultKeyPaths

\* C7: the key comes from the explicit privateKeyPath, else from
\* SSH_PRIVATE_KEY, else from the defaults id_rsa, id_ed25519, id_ecdsa in that
\* order.  A supplied path is tried alone and alone named in the failure; the
\* defaults are tried in order, the first readable one is used, and a total
\* failure names all three in order.
C7_KeyResolutionOrder ==
    (pc # "idle" /\ promise # NoPromise) =>
        LET explicit == args.v["privateKeyPath"]
            supplied == IF Truthy(explicit) THEN explicit ELSE envKey
            failure(tried) ==
                <<"Private key error: ", "No private key found. Tried: ">> \o tried
                \o <<"\n", "Please provide privateKeyPath or set SSH_PRIVATE_KEY environment variable">>
        IN  IF Truthy(supplied)
            THEN /\ keyReads = <<supplied.v>>
                 /\ IF supplied.v \in fs
                    THEN connects = 1 /\ privateKey = FileBytes(supplied.v)
                    ELSE /\ KeyFailed
                         /\ promise.message = failure(supplied.v)
            ELSE /\ keyReads = DefaultsTried
                 /\ IF \E i \in 1..3 : defaultKeyPaths[i] \in fs
                    THEN /\ connects = 1
                         /\ privateKey = FileBytes(keyReads[Len(keyReads)])
                         /\ keyReads[Len(keyReads)] \in fs
                    ELSE /\ KeyFailed
                         /\ promise.message =
                               failure(defaultKeyPaths[1] \o <<", ">> \o defaultKeyPaths[2]
                                       \o <<", ">> \o defaultKeyPaths[3])

C7_Witness ==
    /\ pc = "done"
    /\ args.v["privateKeyPath"] = Str(ExplicitPath)
    /\ ExplicitPath \notin fs
    /\ defaultKeyPaths[1] \in fs
    /\ envKey = Str(EnvPath)
    /\ EnvPath \in fs
    /\ KeyFailed
    /\ keyReads = <<ExplicitPath>>

\* C8: a call of a tool name outside the five opens no session and reaches
\* the dispatch layer as a protocol error with code MethodNotFound and
\* message 'Unknown tool: <name>'.
C8_UnknownToolIsMethodNotFound ==
    (pc = "done" /\ name \notin ToolNames) =>
        /\ connects = 0
        /\ response.kind = "throw"
        /\ response.code = MethodNotFound
        /\ response.message = McpError(MethodNotFound, <<"Unknown tool: ", name>>).message

\* the lines of the target when the script took its backup
Original(p) == (CHOOSE b \in backups : b.stamp = stamp[p]).lines

\* the text with every occurrence of old replaced by new, read literally
RECURSIVE LiteralReplace(_, _, _, _)
LiteralReplace(line, old, new, i) ==
    IF i > Len(line) THEN <<>>
    ELSE IF i + Len(old) - 1 <= Len(line) /\ SubSeq(line, i, i + Len(old) - 1) = old
         THEN new \o LiteralReplace(line, old, new, i + Len(old))
         ELSE <<line[i]>> \o LiteralReplace(line, old, new, i + 1)

NoDot(text) == \A i \in 1..Len(text) : text[i] # "."

\* every [ ] / of the text is preceded by exactly one backslash
EscapedOnce(e) ==
    \A i \in 1..Len(e) :
        e[i] \in {"[", "]", "/"} =>
            /\ i > 1
            /\ e[i - 1] = "\\"
            /\ (i > 2 => e[i - 2] # "\\")

\* C9: for texts over letters, [, ] and /, the sed expression carries each of
\* [ ] / behind exactly one backslash, so a search text that occurs in the file
\* is replaced as a literal, and replacing a present text by itself reports a
\* positive pre-edit count and exit code 0.
C9_SearchTextMatchedLiterally ==
    \A p \in Procs :
    (spc[p] # "none" /\ NoDot(oldText[p]) /\ NoDot(newText[p])) =>
        /\ EscapedOnce(EscapeForSed(oldText[p]))
        /\ EscapedOnce(EscapeForSed(newText[p]))
        /\ sedScript[p] = <<"s", "/">> \o EscapeForSed(oldText[p]) \o <<"/">>
                          \o EscapeForSed(newText[p]) \o <<"/", "g">>
        /\ (spc[p] = "exited" /\ remoteFile.kind = "file" /\ beforeCount[p] > 0
                /\ \A n \in 1..Len(Original(p)) : NoDot(Original(p)[n])) =>
              /\ scriptExit[p] = Num(0)
              /\ remoteFile.lines =
                    [n \in 1..Len(Original(p)) |->
                        LiteralReplace(Original(p)[n], oldText[p], newText[p], 1)]

\* C10: on a regular file without the search text the script ends with exit
\* code 2 and the 'Pattern not found' warning and leaves the file as it was;
\* on a target that is no regular file it ends with exit code 1 before any
\* backup or substitution.
C10_AbsentPatternLeavesFile ==
    \A p \in Procs :
    spc[p] = "exited" =>
        IF remoteFile.kind = "file"
        THEN GrepCount(oldText[p], Original(p)) = 0 =>
                /\ scriptExit[p] = Num(2)
                /\ scriptOut[p][Len(scriptOut[p])] = "Warning: Pattern not found in file"
                /\ remoteFile.lines = Original(p)
        ELSE /\ scriptExit[p] = Num(1)
             /\ backups = {}
             /\ beforeCount[p] = 0

\* the chunks of one stream among the delivered data events, concatenated in
\* their order of arrival
RECURSIVE StreamOf(_, _)
StreamOf(stream, events) ==
    IF events = <<>> THEN <<>>
    ELSE (IF Head(events).stream = stream THEN Head(events).chunk ELSE <<>>)
         \o StreamOf(stream, Tail(events))

\* C15: whatever the interleaving of stdout and stderr data events, the result
\* produced at channel close has as output the stdout chunks in arrival order
\* and as error the stderr chunks in arrival order, each trimmed (error is null
\* when nothing but whitespace arrived on stderr); no chunk crosses over and
\* none delivered before close is lost.
C15_StreamsKeptApart ==
    /\ Len(arrived) = nData
    /\ output = StreamOf("stdout", arrived)
    /\ errorOutput = StreamOf("stderr", arrived)
    /\ promise.state = "fulfilled" =>
          /\ promise.result.output = Trim(StreamOf("stdout", arrived))
          /\ promise.result.error =
                IF Trim(StreamOf("stderr", arrived)) = <<>> THEN Null
                ELSE Str(Trim(StreamOf("stderr", arrived)))

C15_Witness ==
    /\ promise.state = "fulfilled"
    /\ arrived = <<[stream |-> "stderr", chunk |-> <<"e">>],
                   [stream |-> "stdout", chunk |-> <<"o">>]>>
    /\ promise.result.output = <<"o">>
    /\ promise.result.error = Str(<<"e">>)

\* C16: the result produced at channel close carries the remote exit status
\* and, when the close came with a signal and no exit code, that signal too.
C16_ResultCarriesSignal ==
    promise.state = "fulfilled" =>
        /\ promise.result.exitCode = closedWith[1]
        /\ closedWith[2] # Null =>
              /\ "signal" \in DOMAIN promise.result
              /\ promise.result.signal = closedWith[2]

\* the lines i..j of a file joined by newlines, as a returned text shows them
RECURSIVE JoinLines(_)
JoinLines(lines) ==
    IF lines = <<>> THEN <<>>
    ELSE IF Len(lines) = 1 THEN lines[1]
    ELSE lines[1] \o <<"\n">> \o JoinLines(Tail(lines))

Min(a, b) == IF a < b THEN a ELSE b

\* what follows the content marker in a returned text
ContentOf(text) ==
    IF \E i \in 1..Len(text) : text[i] = ContentMarker
    THEN LET i == CHOOSE k \in 1..Len(text) : text[k] = ContentMarker
         IN SubSeq(text, i + 2, Len(text))
    ELSE <<>>

AppendMode == Str(<<"append">>)

\* C11: a write-chunk in append mode adds exactly the bytes of its content to
\* the end of the target, nothing before, between or after them (so that "A"
\* and then "B" leave a file ending in "A" immediately followed by "B").
C11_AppendAddsExactlyContent ==
    \A p \in Procs :
        (/\ ftool[p] = "ssh-write-chunk"
         /\ fargs[p].mode = AppendMode
         /\ fran[p].pc = "size") =>
            fran[p].target.bytes = fbefore[p].bytes \o fargs[p].content

\* the last line of the range the caller asked for
RangeEnd(bytes, a) ==
    IF a.endLine # Undefined
    THEN Min(a.endLine.v, Len(SplitLines(bytes)))
    ELSE Min(Len(SplitLines(bytes)), StartLineOf(a) + MaxLinesOf(a) - 1)

\* C12: a ranged read of an n-line file returns as content exactly lines
\* startLine..endLine when endLine is given (and not before startLine), and
\* exactly lines startLine..min(n, startLine+maxLines-1) when it is absent.
C12_RangedReadReturnsRange ==
    \A p \in Procs :
        (/\ ftool[p] = "ssh-read-lines"
         /\ fran[p].pc = "returned"
         /\ fbefore[p].kind = "file"
         /\ fargs[p].endLine = Undefined
                \/ fargs[p].endLine.v >= StartLineOf(fargs[p])) =>
            ContentOf(ftext[p]) =
                JoinLines(SubSeq(SplitLines(fbefore[p].bytes), StartLineOf(fargs[p]),
                                 RangeEnd(fbefore[p].bytes, fargs[p])))

\* the range line the header is to carry: startLine, then endLine or the
\* end-of-file marker
RangeLine(a) ==
    <<"Reading lines ", NumText(StartLineOf(a)), "-",
      IF Truthy(a.endLine) THEN NumText(a.endLine.v) ELSE "end",
      " (max ", NumText(MaxLinesOf(a)), ")", "\n">>

\* C13: for an existing regular file the text read-lines returns is the
\* header naming the file and its total line count, the range line built from
\* startLine and endLine (or the end-of-file marker), and then the content;
\* a file holding the one line "A" reads as 1 total line followed by "A".
C13_ReadEmitsHeaderThenContent ==
    \A p \in Procs :
        (/\ ftool[p] = "ssh-read-lines"
         /\ fran[p].pc = "returned"
         /\ fbefore[p].kind = "file") =>
            ftext[p] = Trim(FileHeader(fbefore[p].bytes) \o RangeLine(fargs[p])
                            \o <<ContentMarker, "\n">>
                            \o ReadCommand(fbefore[p].bytes, fargs[p]))

\* some line of a file the search reaches matches the pattern
SomeLineMatches(t, a) ==
    /\ FoundFile(t, a)
    /\ \E i \in 1..Len(SplitLines(t.bytes)) :
          LineMatches(SplitLines(t.bytes)[i], a.pattern.v, IgnoreCaseOf(a))

\* C14: a search over an existing directory returns 'No matches found' when
\* no line of any file matches, and the header followed by the capped results
\* when some line does.
C14_NoMatchIndicator ==
    \A p \in Procs :
        (/\ ftool[p] = "ssh-search-code"
         /\ fran[p].pc = "returned"
         /\ fargs[p].path = SearchPath) =>
            IF SomeLineMatches(fbefore[p], fargs[p])
            THEN ftext[p] = Trim(SearchHeader(fargs[p]) \o SearchResults(fbefore[p], fargs[p]))
            ELSE ftext[p] = <<"No matches found">>

\* C17: after any sequence of block-replace calls on one file, every call
\* that ran its substitution has a backup file whose content is the target's
\* content just before that substitution, also when two calls take their
\* timestamp in the same clock second; and when a substitution is about to
\* run, the backup of the content it will change has been taken.
C17_BackupForEverySubstitution ==
    /\ \A i \in 1..Len(preSed) : \E b \in backups : b.lines = preSed[i]
    /\ \A p \in Procs :
          spc[p] = "sed" => \E b \in backups : b.lines = remoteFile.lines

====
